---- MODULE Spec2Model ----
(***************************************************************************)
(* Word guessing game: the solvers of code_refactored.py (simple,          *)
(* optimized, minimax), the original solver of code.py, and the Master     *)
(* oracle of both files.  A word is a sequence of letters, a letter is a   *)
(* positive integer (a = 1 .. z = 26).  One action is one iteration of a   *)
(* solver's while loop; the harness runs the solvers one after another on  *)
(* the same word list, each with a fresh Master, and records the outcome.  *)
(***************************************************************************)
EXTENDS Integers, Sequences, FiniteSets, TLC

VARIABLES words, secret, run, pc, candidates, guess, matches, prev, result,
          guess_count, cache, log, pools, report

vars == <<words, secret, run, pc, candidates, guess, matches, prev, result,
          guess_count, cache, log, pools, report>>

(* ------------------------------ bounds --------------------------------- *)
NumLetters == 2
MaxLen == 3
MaxLiveLen == 2
MaxCalls == 3
MaxCompare == 1

(* ------------------------- program constants --------------------------- *)
SearchLimit == 10

(* ------------------------------ helpers -------------------------------- *)
Min(a, b) == IF a < b THEN a ELSE b

Range(s) == {s[i] : i \in 1..Len(s)}

\* None, and also the empty string: both are falsy in Python.
NoWord == <<>>

\* The two-letter words over the first NumLetters letters.
Words == {<<x, y>> : x, y \in 1..NumLetters}

SeqsUpTo(S, n) == UNION {[1..k -> S] : k \in 0..n}

(* ------------------------------ inputs --------------------------------- *)
\* test_performance case 1: ccbazz eiowzz abcczz acckzz xyzzzz / acckzz
PerfCase1 == << << <<3,3,2,1,26,26>>, <<5,9,15,23,26,26>>, <<1,2,3,3,26,26>>,
                   <<1,3,3,11,26,26>>, <<24,25,26,26,26,26>> >>,
                <<1,3,3,11,26,26>> >>

\* test_performance case 2 and test_find_secret_word case 2: hamada khaled / hamada
PerfCase2 == << << <<8,1,13,1,4,1>>, <<11,8,1,12,5,4>> >>, <<8,1,13,1,4,1>> >>

\* test_performance case 3: abcdef fedcba bcdefa abcxyz xydefz aabbcc dddddd / abcdef
PerfCase3 == << << <<1,2,3,4,5,6>>, <<6,5,4,3,2,1>>, <<2,3,4,5,6,1>>,
                   <<1,2,3,24,25,26>>, <<24,25,4,5,6,26>>, <<1,1,2,2,3,3>>,
                   <<4,4,4,4,4,4>> >>,
                <<1,2,3,4,5,6>> >>

\* test_find_secret_word case 1: acckzz ccbazz eiowzz abcczz / acckzz
OrigCase1 == << << <<1,3,3,11,26,26>>, <<3,3,2,1,26,26>>, <<5,9,15,23,26,26>>,
                   <<1,2,3,3,26,26>> >>,
                <<1,3,3,11,26,26>> >>

\* test_find_secret_word case 3: abcdef fedcba bcdefa abcxyz xydefz / abcdef
OrigCase3 == << << <<1,2,3,4,5,6>>, <<6,5,4,3,2,1>>, <<2,3,4,5,6,1>>,
                   <<1,2,3,24,25,26>>, <<24,25,4,5,6,26>> >>,
                <<1,2,3,4,5,6>> >>

\* abc def / xyz : the secret is absent from the list
AbsentCase == << << <<1,2,3>>, <<4,5,6>> >>, <<24,25,26>> >>

\* Twelve words; the eleventh (1,2,3) splits the pool better than any of
\* the first ten, so the search limit decides the minimax guess.
WideCase == << << <<1,2,10>>, <<1,11,3>>, <<12,2,3>>,
                  <<1,13,14>>, <<15,2,16>>, <<17,18,3>>,
                  <<20,21,22>>, <<23,24,25>>, <<26,27,28>>, <<29,30,31>>,
                  <<1,2,3>>, <<32,33,34>> >>,
               <<1,2,3>> >>

Fixtures == {PerfCase1, PerfCase2, PerfCase3, OrigCase1, OrigCase3,
             AbsentCase, WideCase}

SmallInputs == {<<ws, s>> : ws \in SeqsUpTo(Words, MaxLen), s \in Words}

Inputs == SmallInputs \cup Fixtures

\* The inputs of the runs that are checked for termination.
LiveInputs ==
    {<<ws, s>> : ws \in SeqsUpTo(Words, MaxLiveLen), s \in Words} \cup Fixtures

(* --------------------------- match scorer ------------------------------ *)
\* Mutant: a letter of word1 counts when it occurs anywhere in word2.
calculate_matches_anywhere(word1, word2) ==
    Cardinality({i \in 1..Len(word1) :
                    \E j \in 1..Len(word2) : word1[i] = word2[j]})

\* Mutant: the comparison starts at the second letter.
calculate_matches_skip_first(word1, word2) ==
    Cardinality({i \in 2..Min(Len(word1), Len(word2)) : word1[i] = word2[i]})

\* code_refactored.py calculate_matches: zip stops at the shorter word.
calculate_matches(word1, word2) ==
    Cardinality({i \in 1..Min(Len(word1), Len(word2)) : word1[i] = word2[i]})

\* code.py get_matches: indexes word2 over range(len(word1)).
get_matches(word1, word2) ==
    Cardinality({i \in 1..Len(word1) : word1[i] = word2[i]})

\* code_refactored.py Master._calculate_matches
Master_calculate_matches(word, secret_word) ==
    IF word = secret_word
    THEN Len(word)
    ELSE Cardinality({i \in 1..Min(Len(word), Len(secret_word)) :
                         word[i] = secret_word[i]})

\* code.py Master.guess, the value it returns
OriginalMasterScore(word, secret_word) ==
    IF word = secret_word
    THEN Len(word)
    ELSE Cardinality({i \in 1..Len(word) : word[i] = secret_word[i]})

(* ------------------------------ solvers -------------------------------- *)
\* The solvers in the order the harness calls them: the three strategies,
\* the solver of code.py, findSecretWord without a strategy argument, and
\* the three strategies once more.
RunOrder == <<"simple", "optimized", "minimax", "original", "default",
              "simple", "optimized", "minimax">>

Strategy == IF run \in 1..Len(RunOrder) THEN RunOrder[run] ELSE "none"

\* Mutant: the fallback of the lookup is the minimax solver.
Solver_default_minimax(strategy) ==
    IF strategy \in {"simple", "optimized", "minimax"}
    THEN strategy
    ELSE "minimax"

\* findSecretWord of code_refactored.py: strategies.get(strategy, optimized)
Solver(strategy) ==
    IF strategy \in {"simple", "optimized", "minimax"}
    THEN strategy
    ELSE "optimized"

\* Mutant: the guess itself is kept whatever its match count.
FilterSimple_keeps_guess(cands, g, m) ==
    SelectSeq(cands, LAMBDA word : word = g \/ calculate_matches(g, word) = m)

\* find_secret_word_simple, the list comprehension
FilterSimple(cands, g, m) ==
    SelectSeq(cands, LAMBDA word : calculate_matches(g, word) = m)

\* Mutant: only the guess is dropped, the match count is not compared.
FilterOptimized_guess_only(cands, g, m) ==
    SelectSeq(cands, LAMBDA word : word # g)

\* find_secret_word_optimized, the list comprehension
FilterOptimized(cands, g, m) ==
    SelectSeq(cands, LAMBDA word : word # g /\ calculate_matches(g, word) = m)

\* find_secret_word_minimax, the list comprehension
FilterMinimax(cands, g, m) ==
    SelectSeq(cands, LAMBDA word : word # g /\ calculate_matches(g, word) = m)

\* Mutant: only the guess is dropped, the match count is not compared.
FilterOriginal_guess_only(cands, g, m) ==
    SelectSeq(cands, LAMBDA word : word # g)

\* code.py findSecretWord, the list comprehension
FilterOriginal(cands, g, m) ==
    SelectSeq(cands, LAMBDA word : get_matches(g, word) = m)

\* Mutant: one letter short of a full match is accepted.
FullMatch_off_by_one(g, m) == m >= Len(g) - 1

\* the early exit test "matches == len(guess)"
FullMatch(g, m) == m = Len(g)

\* Mutant: the middle word also for an even number of candidates.
pick_informative_word_middle(cands) ==
    IF Len(cands) <= 3
    THEN cands[1]
    ELSE cands[(Len(cands) \div 2) + 1]

\* pick_informative_word (Python indexes from 0, TLA+ from 1)
pick_informative_word(cands) ==
    IF Len(cands) <= 3
    THEN cands[1]
    ELSE IF Len(cands) % 2 = 0
         THEN cands[1]
         ELSE cands[(Len(cands) \div 2) + 1]

\* find_secret_word_optimized, the choice of the guess
OptimizedGuess(cands) ==
    IF Len(cands) <= 3
    THEN cands[1]
    ELSE pick_informative_word(cands)

\* find_secret_word_minimax, the inner loops: for one potential guess, the
\* largest number of candidates that give one and the same match count.
RemainingFor(potential_guess, remaining_word, cands) ==
    Cardinality({j \in 1..Len(cands) :
        calculate_matches(potential_guess, cands[j])
            = calculate_matches(potential_guess, remaining_word)})

\* "worst = max(worst, remaining)" over every remaining_word, from 0
worst_candidates_remaining(potential_guess, cands) ==
    LET all == {0} \cup {RemainingFor(potential_guess, cands[i], cands) :
                            i \in 1..Len(cands)}
    IN  CHOOSE worst \in all : \A remaining \in all : remaining <= worst

\* Mutant: "<=" for "<", so the last of several equal guesses wins.
Improves_or_equal(worst, min_worst_case) == worst <= min_worst_case

\* the update test of the outer loop
Improves(worst, min_worst_case) == worst < min_worst_case

\* find_secret_word_minimax, the outer loop over candidates[:min(10, len)]:
\* the pair <<best_guess, min_worst_case>> after the first n potential guesses.
RECURSIVE BestLoop(_, _)
BestLoop(cands, n) ==
    IF n = 0
    THEN <<NoWord, Len(cands)>>
    ELSE CHOOSE after \in
            {IF Improves(worst, before[2]) THEN <<cands[n], worst>> ELSE before :
                before \in {BestLoop(cands, n - 1)},
                worst \in {worst_candidates_remaining(cands[n], cands)}} : TRUE

\* Mutant: best_guess is used even when the loop left it None.
MinimaxGuess_no_fallback(cands) ==
    BestLoop(cands, Min(SearchLimit, Len(cands)))[1]

\* find_secret_word_minimax, "guess = best_guess if best_guess else candidates[0]"
MinimaxGuess(cands) ==
    LET best_guess == BestLoop(cands, Min(SearchLimit, Len(cands)))[1]
    IN  IF best_guess # NoWord THEN best_guess ELSE cands[1]

(* ------------------------------- Master -------------------------------- *)
\* Which Master class the current run uses.
Refactored == Strategy # "original"

\* The value Master.guess(word) returns in the current state.
GuessValue(word) ==
    IF Refactored
    THEN IF word \in DOMAIN cache
         THEN cache[word]
         ELSE Master_calculate_matches(word, secret)
    ELSE OriginalMasterScore(word, secret)

\* Mutant: a call answered from the cache is not counted.
MasterGuess_count_on_miss(word) ==
    /\ guess_count' = IF Refactored /\ word \in DOMAIN cache
                      THEN guess_count
                      ELSE guess_count + 1
    /\ cache' = IF Refactored /\ word \notin DOMAIN cache
                THEN cache @@ (word :> Master_calculate_matches(word, secret))
                ELSE cache
    /\ log' = Append(log, <<word, GuessValue(word)>>)

\* Master.guess(word): the effect on the Master; log records every call.
MasterGuess(word) ==
    /\ guess_count' = guess_count + 1
    /\ cache' = IF Refactored /\ word \notin DOMAIN cache
                THEN cache @@ (word :> Master_calculate_matches(word, secret))
                ELSE cache
    /\ log' = Append(log, <<word, GuessValue(word)>>)

(* ------------------------------- state --------------------------------- *)
InitWith(inputs) ==
    /\ \E in \in inputs : words = in[1] /\ secret = in[2]
    /\ run = 1
    /\ pc = "idle"
    /\ candidates = <<>>
    /\ guess = NoWord
    /\ matches = 0
    /\ prev = <<>>
    /\ result = NoWord
    /\ guess_count = 0
    /\ cache = <<>>
    /\ log = <<>>
    /\ pools = <<>>
    /\ report = <<>>

Init == InitWith(Inputs)

\* The harness builds a fresh Master and calls the solver, which copies
\* the word list into candidates.
StartRun ==
    /\ pc = "idle"
    /\ run \in 1..Len(RunOrder)
    /\ pc' = "SEARCHING"
    /\ candidates' = words
    /\ guess' = NoWord
    /\ matches' = 0
    /\ prev' = <<>>
    /\ result' = NoWord
    /\ guess_count' = 0
    /\ cache' = <<>>
    /\ log' = <<>>
    /\ pools' = <<>>
    /\ UNCHANGED <<words, secret, run, report>>

\* Mutant: the filter writes its result into the caller's list as well.
QueryRound_in_place(g, filtered) ==
    LET m == GuessValue(g)
    IN  /\ MasterGuess(g)
        /\ guess' = g
        /\ matches' = m
        /\ prev' = candidates
        /\ IF FullMatch(g, m)
           THEN /\ pc' = "FOUND"
                /\ result' = g
                /\ UNCHANGED <<candidates, pools, words>>
           ELSE /\ candidates' = filtered
                /\ words' = filtered
                /\ pools' = Append(pools, filtered)
                /\ UNCHANGED <<pc, result>>
        /\ UNCHANGED <<secret, run, report>>

\* One iteration of a while loop that queries g; filtered is the pool the
\* solver's list comprehension builds when g is not a full match.
QueryRound(g, filtered) ==
    LET m == GuessValue(g)
    IN  /\ MasterGuess(g)
        /\ guess' = g
        /\ matches' = m
        /\ prev' = candidates
        /\ IF FullMatch(g, m)
           THEN /\ pc' = "FOUND"
                /\ result' = g
                /\ UNCHANGED <<candidates, pools>>
           ELSE /\ candidates' = filtered
                /\ pools' = Append(pools, filtered)
                /\ UNCHANGED <<pc, result>>
        /\ UNCHANGED <<words, secret, run, report>>

SimpleRound ==
    /\ pc = "SEARCHING"
    /\ Refactored /\ Solver(Strategy) = "simple"
    /\ candidates # <<>>
    /\ \E g \in {candidates[1]} : QueryRound(g, FilterSimple(candidates, g, GuessValue(g)))

\* Mutant: the guess is a candidate picked at random.
OptimizedRound_random ==
    /\ pc = "SEARCHING"
    /\ Refactored /\ Solver(Strategy) = "optimized"
    /\ candidates # <<>>
    /\ \E g \in Range(candidates) :
          QueryRound(g, FilterOptimized(candidates, g, GuessValue(g)))

OptimizedRound ==
    /\ pc = "SEARCHING"
    /\ Refactored /\ Solver(Strategy) = "optimized"
    /\ candidates # <<>>
    /\ \E g \in {OptimizedGuess(candidates)} : QueryRound(g, FilterOptimized(candidates, g, GuessValue(g)))

\* Mutant: a single remaining candidate is asked like any other guess.
MinimaxSingleton_asks ==
    /\ pc = "SEARCHING"
    /\ Refactored /\ Solver(Strategy) = "minimax"
    /\ Len(candidates) = 1
    /\ \E g \in {candidates[1]} :
          QueryRound(g, FilterMinimax(candidates, g, GuessValue(g)))

\* "if len(candidates) == 1: return candidates[0]"
MinimaxSingleton ==
    /\ pc = "SEARCHING"
    /\ Refactored /\ Solver(Strategy) = "minimax"
    /\ Len(candidates) = 1
    /\ pc' = "FOUND"
    /\ result' = candidates[1]
    /\ UNCHANGED <<words, secret, run, candidates, guess, matches, prev,
                   guess_count, cache, log, pools, report>>

MinimaxRound ==
    /\ pc = "SEARCHING"
    /\ Refactored /\ Solver(Strategy) = "minimax"
    /\ Len(candidates) > 1
    /\ \E g \in {MinimaxGuess(candidates)} : QueryRound(g, FilterMinimax(candidates, g, GuessValue(g)))

OriginalRound ==
    /\ pc = "SEARCHING"
    /\ ~Refactored
    /\ Len(candidates) > 0
    /\ \E g \in {candidates[1]} : QueryRound(g, FilterOriginal(candidates, g, GuessValue(g)))

\* The while condition fails: raise ValueError(...)
Raise ==
    /\ pc = "SEARCHING"
    /\ Refactored
    /\ candidates = <<>>
    /\ pc' = "EXHAUSTED"
    /\ UNCHANGED <<words, secret, run, candidates, guess, matches, prev,
                   result, guess_count, cache, log, pools, report>>

\* code.py: the while condition fails: return None
ReturnNone ==
    /\ pc = "SEARCHING"
    /\ ~Refactored
    /\ candidates = <<>>
    /\ pc' = "NONE"
    /\ UNCHANGED <<words, secret, run, candidates, guess, matches, prev,
                   result, guess_count, cache, log, pools, report>>

\* The harness reads the outcome and master.guess_count, then goes on to
\* the next solver.
Report ==
    /\ pc \in {"FOUND", "EXHAUSTED", "NONE"}
    /\ report' = Append(report, [strategy |-> Strategy, outcome |-> pc,
                                 result |-> result, guesses |-> guess_count,
                                 queries |-> log, pools |-> pools])
    /\ run' = run + 1
    /\ pc' = "idle"
    /\ UNCHANGED <<words, secret, candidates, guess, matches, prev, result,
                   guess_count, cache, log, pools>>

Next ==
    \/ StartRun
    \/ SimpleRound
    \/ OptimizedRound
    \/ MinimaxSingleton
    \/ MinimaxRound
    \/ OriginalRound
    \/ Raise
    \/ ReturnNone
    \/ Report

Spec == Init /\ [][Next]_vars

\* The program is sequential and runs to completion.
FairInit == InitWith(LiveInputs)

FairSpec == FairInit /\ [][Next]_vars /\ WF_vars(Next)

(* ------------------ the Master called directly ------------------------- *)
OracleInit ==
    /\ words = <<>>
    /\ secret \in Words
    /\ run \in 1..Len(RunOrder)
    /\ pc = "direct"
    /\ candidates = <<>>
    /\ guess = NoWord
    /\ matches = 0
    /\ prev = <<>>
    /\ result = NoWord
    /\ guess_count = 0
    /\ cache = <<>>
    /\ log = <<>>
    /\ pools = <<>>
    /\ report = <<>>

\* A caller holding the Master calls guess(word) with any word.
DirectGuess ==
    /\ pc = "direct"
    /\ guess_count < MaxCalls
    /\ \E word \in Words :
          /\ MasterGuess(word)
          /\ guess' = word
          /\ matches' = GuessValue(word)
    /\ UNCHANGED <<words, secret, run, pc, candidates, prev, result, pools,
                   report>>

OracleNext == DirectGuess

OracleSpec == OracleInit /\ [][OracleNext]_vars

(* ------------------ the scorer and the Master compared ----------------- *)
\* Every word of the small inputs and of the fixtures.
ScoreWords == Words \cup UNION {Range(f[1]) \cup {f[2]} : f \in Fixtures}

\* The module-level scorer of the file the current Master comes from.
ScoreOf(word1, word2) ==
    IF Refactored
    THEN calculate_matches(word1, word2)
    ELSE get_matches(word1, word2)

ScorerInit ==
    /\ words = <<>>
    /\ secret \in ScoreWords
    /\ run \in {i \in 1..Len(RunOrder) : RunOrder[i] \in {"minimax", "original"}}
    /\ pc = "scorer"
    /\ candidates = <<>>
    /\ guess = NoWord
    /\ matches = 0
    /\ prev = <<>>
    /\ result = NoWord
    /\ guess_count = 0
    /\ cache = <<>>
    /\ log = <<>>
    /\ pools = <<>>
    /\ report = <<>>

\* A caller asks the Master about a word and scores the same word against
\* the secret with the scorer, in both argument orders.
Compare ==
    /\ pc = "scorer"
    /\ guess_count < MaxCompare
    /\ \E word \in ScoreWords :
          /\ Len(word) = Len(secret)
          /\ MasterGuess(word)
          /\ guess' = word
          /\ matches' = GuessValue(word)
          /\ report' = <<[forward |-> ScoreOf(word, secret),
                          backward |-> ScoreOf(secret, word)]>>
    /\ UNCHANGED <<words, secret, run, pc, candidates, prev, result, pools>>

ScorerNext == Compare

ScorerSpec == ScorerInit /\ [][ScorerNext]_vars

TypeOK ==
    /\ guess_count = Len(log)
    /\ pc \in {"idle", "SEARCHING", "FOUND", "EXHAUSTED", "NONE", "direct",
              "scorer"}

(* ------------------------------ claims --------------------------------- *)
InWords == secret \in Range(words)

\* A solver of code_refactored.py is running or has just ended.
InRefactoredRun == Refactored /\ pc \in {"SEARCHING", "FOUND", "EXHAUSTED"}

\* C1: with the secret in the word list, each of the three strategies ends
\* by returning the secret, never a different word and never the error.
C1_SolveReturnsSecret ==
    InWords =>
        /\ (Refactored => pc # "EXHAUSTED")
        /\ (Refactored /\ pc = "FOUND" => result = secret)
        /\ \A i \in 1..Len(report) :
              report[i].strategy \in {"simple", "optimized", "minimax"}
                  => report[i].outcome = "FOUND" /\ report[i].result = secret

C1_Witness ==
    /\ InWords
    /\ Len(report) >= 3
    /\ \A i \in 1..3 : /\ report[i].outcome = "FOUND"
                       /\ report[i].result = secret
                       /\ report[i].guesses >= 2

\* C2: with the secret in the word list, the pool left by every filtering
\* step still holds the secret.
C2_SecretStaysInPool ==
    InWords /\ pc = "SEARCHING" => secret \in Range(candidates)

C2_Witness ==
    /\ InWords
    /\ pc = "SEARCHING"
    /\ Strategy = "optimized"
    /\ guess_count >= 1
    /\ Len(candidates) >= 2
    /\ Len(candidates) < Len(prev)
    /\ secret \in Range(candidates)

\* C3: every solve ends, and the Master has then been asked at most as
\* many times as the word list has words, secret in the list or not.
C3_TerminatesWithinPoolSize ==
    /\ [](guess_count <= Len(words))
    /\ [](pc = "SEARCHING" => <>(pc \in {"FOUND", "EXHAUSTED", "NONE"}))
    /\ <>[](run > Len(RunOrder))

C3_Witness ==
    /\ ~InWords
    /\ pc = "EXHAUSTED"
    /\ Len(words) >= 2
    /\ guess_count = Len(words)

\* C4: with the secret absent from the word list, every strategy ends in
\* the error and returns no word.
C4_AbsentSecretExhausts ==
    ~InWords /\ Refactored => pc # "FOUND"

\* C5 as stated: a solver returns a word only after the Master was asked
\* that word and answered with its full length.
C5_FoundOnlyAfterFullMatch ==
    pc = "FOUND" => guess_count > 0 /\ guess = result /\ matches = Len(result)

\* C5 as amended: a returned word was confirmed by the Master, or the
\* strategy is minimax and the pool held exactly that one word.
C5_FoundConfirmedOrSingleton ==
    pc = "FOUND" =>
        \/ guess_count > 0 /\ guess = result /\ matches = Len(result)
        \/ Strategy = "minimax" /\ candidates = <<result>>

C5_Witness ==
    /\ pc = "FOUND"
    /\ Strategy = "minimax"
    /\ candidates = <<result>>
    /\ guess_count >= 1
    /\ guess # result

OnFixture == words = OrigCase3[1] /\ secret = OrigCase3[2]

\* C6 as stated: on the fixture abcdef fedcba bcdefa abcxyz xydefz with
\* secret abcdef, minimax asks at most as often as the simple strategy.
C6_MinimaxNotWorse ==
    OnFixture /\ Len(report) >= 3 => report[3].guesses <= report[1].guesses

\* C6 as amended: on that fixture the simple strategy asks once, minimax
\* asks twice, and both return abcdef.
C6_MinimaxOneMore ==
    OnFixture /\ Len(report) >= 3 =>
        /\ report[1].strategy = "simple" /\ report[1].guesses = 1
        /\ report[3].strategy = "minimax" /\ report[3].guesses = 2
        /\ report[1].result = secret /\ report[3].result = secret

C6_Witness ==
    /\ OnFixture
    /\ Len(report) >= 3
    /\ report[3].guesses = report[1].guesses + 1

\* The number of positions at which two words of equal length agree.
Score(a, b) == Cardinality({i \in 1..Len(a) : a[i] = b[i]})

PureFilter(pool, g, m) == SelectSeq(pool, LAMBDA w : Score(g, w) = m)

\* C7: the pool left by a filtering step is the old pool restricted to the
\* words whose score against the guess is the observed score, in the old
\* order; the test "word != guess" changes nothing.
C7_FilterIsScoreEquality ==
    pc = "SEARCHING" /\ guess_count > 0 =>
        candidates = PureFilter(prev, guess, matches)

C7_Witness ==
    /\ pc = "SEARCHING"
    /\ Strategy \in {"optimized", "minimax"}
    /\ guess_count > 0
    /\ Len(candidates) >= 1
    /\ Len(candidates) + 2 <= Len(prev)
    /\ \E i, j \in 1..Len(prev) : i # j /\ prev[i] = guess /\ prev[j] = guess

\* C8: every call of guess adds exactly one to the counter, a repeated
\* word included, and a repeated word gets the answer it got before.
C8_EachCallCountsOnce ==
    [][ /\ guess_count' = guess_count + 1
        /\ \A i \in 1..Len(log) :
              log[i][1] = guess' => matches' = log[i][2] ]_vars

C8_Witness ==
    /\ pc = "direct"
    /\ Refactored
    /\ guess \in DOMAIN cache
    /\ \E i \in 1..Len(log) : i < Len(log) /\ log[i][1] = guess
    /\ guess_count = Len(log)
    /\ guess_count >= 3

HeuristicChoice(pool) ==
    IF Len(pool) <= 3
    THEN pool[1]
    ELSE IF Len(pool) % 2 = 0
         THEN pool[1]
         ELSE pool[(Len(pool) \div 2) + 1]

WorstCase(g, pool) ==
    LET size(v) == Cardinality({j \in 1..Len(pool) : Score(g, pool[j]) = v})
    IN  CHOOSE n \in 0..Len(pool) :
            /\ \E v \in 0..Len(g) : size(v) = n
            /\ \A v \in 0..Len(g) : size(v) <= n

\* The earliest position among the first min(10, |pool|) whose worst case
\* is the smallest.
MinimaxChoice(pool) ==
    LET limit == Min(10, Len(pool))
    IN  CHOOSE k \in 1..limit :
            /\ \A j \in 1..limit :
                  WorstCase(pool[k], pool) <= WorstCase(pool[j], pool)
            /\ \A j \in 1..(k - 1) :
                  WorstCase(pool[j], pool) > WorstCase(pool[k], pool)

\* C10: with at least two words in the pool, minimax asks the word among
\* the first min(10, |pool|) whose worst case is the smallest, the earliest
\* of them when several are equal.
C10_MinimaxGuess ==
    InRefactoredRun /\ Strategy = "minimax" /\ guess_count > 0 =>
        Len(prev) >= 2 /\ guess = prev[MinimaxChoice(prev)]

C10_Witness ==
    /\ InRefactoredRun
    /\ Strategy = "minimax"
    /\ guess_count = 1
    /\ Len(prev) > 10
    /\ guess = prev[MinimaxChoice(prev)]
    /\ \E j \in 11..Len(prev) : WorstCase(prev[j], prev) < WorstCase(guess, prev)
    /\ \E j \in 1..10 : prev[j] # guess /\ WorstCase(prev[j], prev) = WorstCase(guess, prev)

\* The report of the first run of a solver.
FirstReport(strategy) ==
    report[CHOOSE i \in 1..Len(report) :
              /\ report[i].strategy = strategy
              /\ \A j \in 1..(i - 1) : report[j].strategy # strategy]

Reported(strategy) == \E i \in 1..Len(report) : report[i].strategy = strategy

\* What a caller sees of a run: the queries, the outcome and the count.
Behaviour(r) == <<r.queries, r.outcome, r.result, r.guesses>>

\* C11 as stated: without a strategy argument findSecretWord asks the
\* same words and ends as the minimax strategy does.
C11_DefaultIsMinimax ==
    Reported("default") =>
        Behaviour(FirstReport("default")) = Behaviour(FirstReport("minimax"))

\* C11 as amended: without a strategy argument findSecretWord asks the
\* same words and ends as the optimized strategy does.
C11_DefaultIsOptimized ==
    Reported("default") =>
        Behaviour(FirstReport("default")) = Behaviour(FirstReport("optimized"))

C11_Witness ==
    /\ Reported("default")
    /\ Behaviour(FirstReport("default")) = Behaviour(FirstReport("optimized"))
    /\ Behaviour(FirstReport("default")) # Behaviour(FirstReport("minimax"))
    /\ FirstReport("default").guesses >= 2

Compared == pc = "scorer" /\ report # <<>>

\* C12: the score of two words of equal length is the same in both
\* argument orders.
C12_ScoreSymmetric ==
    Compared => report[1].forward = report[1].backward

C12_Witness ==
    /\ Compared
    /\ guess # secret
    /\ report[1].forward >= 1
    /\ report[1].forward < Len(guess)
    /\ report[1].forward = report[1].backward

\* C13: the score is the number of positions at which the two words
\* agree, so it lies between 0 and the word length and is the word length
\* for a word against itself; the Master answers with that score of the
\* word against the secret.
C13_ScoreCountsPositions ==
    Compared =>
        /\ report[1].forward = Score(guess, secret)
        /\ report[1].forward >= 0
        /\ report[1].forward <= Len(guess)
        /\ (guess = secret => report[1].forward = Len(guess))
        /\ matches = Score(guess, secret)
        /\ log[Len(log)] = <<guess, Score(guess, secret)>>

C13_Witness ==
    /\ Compared
    /\ guess = secret
    /\ Len(guess) >= 3
    /\ report[1].forward = Len(guess)
    /\ matches = Len(guess)

\* C14: when the minimax pool holds exactly one word at the start of a
\* round, that word is returned and the Master is not asked.
C14_SingletonReturnedUnasked ==
    [][ (pc = "SEARCHING" /\ Strategy = "minimax" /\ Len(candidates) = 1) =>
            /\ pc' = "FOUND"
            /\ result' = candidates[1]
            /\ guess_count' = guess_count
            /\ log' = log ]_vars

C14_Witness ==
    /\ pc = "FOUND"
    /\ Strategy = "minimax"
    /\ words = <<result>>
    /\ guess_count = 0
    /\ log = <<>>

\* sub, from position i on, is found in order in seq from position j on.
RECURSIVE SubFrom(_, _, _, _)
SubFrom(sub, i, seq, j) ==
    IF i > Len(sub) THEN TRUE
    ELSE IF j > Len(seq) THEN FALSE
    ELSE IF sub[i] = seq[j] THEN SubFrom(sub, i + 1, seq, j + 1)
    ELSE SubFrom(sub, i, seq, j + 1)

IsSubsequence(sub, seq) == SubFrom(sub, 1, seq, 1)

\* C15: a round that does not end the search leaves a pool that is a
\* subsequence of the pool before, is strictly shorter, and holds no copy
\* of the word just asked.
C15_PoolShrinks ==
    pc = "SEARCHING" /\ guess_count > 0 =>
        /\ IsSubsequence(candidates, prev)
        /\ Len(candidates) < Len(prev)
        /\ guess \notin Range(candidates)

C15_Witness ==
    /\ pc = "SEARCHING"
    /\ Strategy = "original"
    /\ guess_count > 0
    /\ Len(candidates) >= 2
    /\ Len(candidates) < Len(prev)
    /\ IsSubsequence(candidates, prev)

InSolverRun == pc \in {"SEARCHING", "FOUND", "EXHAUSTED", "NONE"}

\* C16: every word asked is a word of the pool it was chosen from, and
\* every word returned is a word of the original list.
C16_GuessFromPool ==
    /\ InSolverRun /\ guess_count > 0 => guess \in Range(prev)
    /\ InSolverRun => \A i \in 1..Len(log) : log[i][1] \in Range(words)
    /\ pc = "FOUND" => result \in Range(words)
    /\ \A i \in 1..Len(report) :
          report[i].outcome = "FOUND" => report[i].result \in Range(words)

C16_Witness ==
    /\ pc = "SEARCHING"
    /\ Strategy = "minimax"
    /\ guess_count > 0
    /\ guess = prev[1]
    /\ BestLoop(prev, Min(SearchLimit, Len(prev)))[1] = NoWord

\* C17: the caller's word list is never changed, whatever happens to the
\* pool.
C17_WordsUntouched == [][words' = words]_vars

C17_Witness ==
    /\ pc = "EXHAUSTED"
    /\ Len(words) >= 2
    /\ candidates = <<>>
    /\ pools # <<>>
    /\ report # <<>>
    /\ pools[1] # words

C19_NoWordAskedTwice ==
    InSolverRun =>
        /\ \A i, j \in 1..Len(log) : i # j => log[i][1] # log[j][1]
        /\ (Refactored => Cardinality(DOMAIN cache) = guess_count)

C19_Witness ==
    /\ pc = "FOUND"
    /\ Refactored
    /\ guess_count >= 2
    /\ Cardinality(DOMAIN cache) = 2
    /\ \E i, j \in 1..Len(words) :
          i # j /\ words[i] = log[1][1] /\ words[j] = log[1][1]

====
